---- MODULE Spec2Model ----
(***************************************************************************)
(* A model of tide.py: process_tidal_data(input_files, output_file).       *)
(*                                                                         *)
(* Numbers.  Timestamps are whole seconds.  'Current (mA)' is a whole      *)
(* number of mA.  Altitude = 4.51 x - 36.4 is kept exactly as              *)
(* 100 * Altitude = 451 x - 3640, and the Savitzky-Golay output            *)
(* (window 5, order 2: rational weights over 35) exactly as                *)
(* 3500 * Smoothed.  Scaling by a positive constant changes no comparison  *)
(* the program makes, and the floor -4 becomes -400.                       *)
(*                                                                         *)
(* Library calls (pandas, numpy, scipy) are modelled by their algorithm.   *)
(* Where the library leaves the order of equal keys open (numpy's default  *)
(* 'quicksort' argsort, used by DataFrame.sort_values and by find_peaks'   *)
(* distance selection) every order is a possible outcome.                  *)
(***************************************************************************)
EXTENDS Integers, Sequences, FiniteSets, TLC

VARIABLES input_files, pc, file_idx, all_data, combined_data, smoothed_values,
          peaks, troughs, intervals, max_high_tide, min_low_tide, stats_data,
          console, written, raised

vars == <<input_files, pc, file_idx, all_data, combined_data, smoothed_values,
          peaks, troughs, intervals, max_high_tide, min_low_tide, stats_data,
          console, written, raised>>

----------------------------------------------------------------------------
(* Bounds of the model *)

\* files on the command line of a short run
MaxFiles == 2
\* rows, over all files, of a short run
MaxRecords == 2
\* rows of a long recording
SeriesLen == 210

----------------------------------------------------------------------------
(* Values *)

\* pandas' NaT: what to_datetime(errors='coerce') makes of a cell it cannot parse
NaT == -1
\* a 'Date' cell that is no date (text, blank)
Unparseable == -2

\* savgol_filter's window, find_peaks' distance, the trough floor -4 (hundredths)
window_size == 5
distance == 96
min_tide_threshold == -400

Max2(a, b) == IF a >= b THEN a ELSE b
Min2(a, b) == IF a <= b THEN a ELSE b

----------------------------------------------------------------------------
(* Input files.  A file is unreadable (read_excel raises: no such file,    *)
(* sheet or column) or holds the columns 'Date' and 'Current (mA)'.        *)
(* Frames are kept by column, as pandas keeps them.                        *)

ShortDates == {0, 300, Unparseable}
ShortCurrents == {7, 9}
ShortRows == [Date : ShortDates, Current : ShortCurrents]

UnreadableFile == [readable |-> FALSE, Date |-> <<>>, Current |-> <<>>]
SheetFile(rows) ==
    [readable |-> TRUE,
     Date     |-> [r \in 1..Len(rows) |-> rows[r].Date],
     Current  |-> [r \in 1..Len(rows) |-> rows[r].Current]]

RECURSIVE RowSeqs(_)
RowSeqs(n) ==
    IF n = 0 THEN {<<>>}
    ELSE {<<>>} \cup {<<r>> \o s : r \in ShortRows, s \in RowSeqs(n - 1)}

\* every command line of 1..nfiles files holding at most budget rows in all
RECURSIVE ShortInputs(_, _)
ShortInputs(nfiles, budget) ==
    IF nfiles = 0 THEN {<<>>}
    ELSE LET firsts == {UnreadableFile} \cup {SheetFile(rs) : rs \in RowSeqs(budget)}
         IN  UNION {{<<f>> \o rest :
                        rest \in {<<>>} \cup ShortInputs(nfiles - 1, budget - Len(f.Date))} :
                    f \in firsts}

(* A long recording: one file of SeriesLen rows, Cadence seconds apart, at   *)
(* BaseCurrent but for the rows SpikeAt, each moved by one of SpikeHeights; *)
(* with held a spike lasts two rows, with badTail the last TailLen 'Date'   *)
(* cells are unparseable (both with the spikes taken from TailHeights).    *)
Cadence == 450
StartTime == 0
BaseCurrent == 9
TailLen == 16
SpikeAt == {10, 58, 106, 202}
SpikeHeights == {0 - 2, 0 - 1, 0, 1, 2}
TailHeights == {0 - 1, 0, 1}

Recording(spikes, held, badTail) ==
    [readable |-> TRUE,
     Date     |-> [r \in 1..SeriesLen |->
                     IF badTail /\ r > SeriesLen - TailLen
                     THEN Unparseable
                     ELSE StartTime + (r - 1) * Cadence],
     Current  |-> [r \in 1..SeriesLen |->
                     BaseCurrent + (IF (r - 1) \in SpikeAt THEN spikes[r - 1]
                                    ELSE IF held /\ (r - 2) \in SpikeAt THEN spikes[r - 2]
                                    ELSE 0)]]

LongInputs ==
    {<<Recording(spikes, FALSE, FALSE)>> : spikes \in [SpikeAt -> SpikeHeights]}
        \cup {<<Recording(spikes, TRUE, FALSE)>> : spikes \in [SpikeAt -> TailHeights]}
        \cup {<<Recording(spikes, FALSE, TRUE)>> : spikes \in [SpikeAt -> TailHeights]}

Inputs == (ShortInputs(MaxFiles, MaxRecords) \ {<<>>}) \cup LongInputs

----------------------------------------------------------------------------
(* Loading: lines 12-25 *)

\* pd.to_datetime(df['Date'], errors='coerce')
ToDatetime(cell) == IF cell = Unparseable THEN NaT ELSE cell

\* df[['datetime', 'Current (mA)']] of one sheet
ReadExcel(file) ==
    [datetime |-> [r \in DOMAIN file.Date |-> ToDatetime(file.Date[r])],
     Current  |-> file.Current]

LoadFile ==
    /\ pc = "load"
    /\ file_idx <= Len(input_files)
    /\ LET file == input_files[file_idx] IN
         IF file.readable
         THEN /\ all_data' = Append(all_data, ReadExcel(file))
              /\ console' = console
         ELSE /\ all_data' = all_data
              /\ console' = Append(console, "Error processing")
    /\ file_idx' = file_idx + 1
    /\ UNCHANGED <<input_files, pc, combined_data, smoothed_values, peaks, troughs,
                   intervals, max_high_tide, min_low_tide, stats_data, written, raised>>

\* lines 27-30
CheckLoaded ==
    /\ pc = "load"
    /\ file_idx > Len(input_files)
    /\ IF all_data = <<>>
       THEN /\ console' = Append(console, "No valid data files provided.")
            /\ pc' = "returned"
       ELSE /\ console' = console
            /\ pc' = "merge"
    /\ UNCHANGED <<input_files, file_idx, all_data, combined_data, smoothed_values,
                   peaks, troughs, intervals, max_high_tide, min_low_tide, stats_data,
                   written, raised>>

----------------------------------------------------------------------------
(* Merge: lines 32-34 *)

\* pd.concat(frames, ignore_index=True)
RECURSIVE Concat(_)
Concat(frames) ==
    IF frames = <<>> THEN [datetime |-> <<>>, Current |-> <<>>]
    ELSE LET rest == Concat(Tail(frames)) IN
         [datetime |-> Head(frames).datetime \o rest.datetime,
          Current  |-> Head(frames).Current \o rest.Current]

\* a sorts strictly before b under sort_values(by='datetime'): NaT goes last
Before(a, b) == a # NaT /\ (b = NaT \/ a < b)

\* two sorted runs of positions merged, L's rows first among equal keys; runs
\* already in order are joined as they are
MergeRuns(key, L, R) ==
    IF L = <<>> THEN R
    ELSE IF R = <<>> \/ ~Before(key[R[1]], key[L[Len(L)]]) THEN L \o R
    ELSE LET placeL == [i \in DOMAIN L |->
                          i + Cardinality({j \in DOMAIN R : Before(key[R[j]], key[L[i]])})]
             placeR == [j \in DOMAIN R |->
                          j + Cardinality({i \in DOMAIN L : ~Before(key[R[j]], key[L[i]])})]
         IN  [q \in 1..(Len(L) + Len(R)) |->
                IF \E i \in DOMAIN L : placeL[i] = q
                THEN L[CHOOSE i \in DOMAIN L : placeL[i] = q]
                ELSE R[CHOOSE j \in DOMAIN R : placeR[j] = q]]

\* the stable argsort of key[lo..hi] (a merge sort)
RECURSIVE StableArgsort(_, _, _)
StableArgsort(key, lo, hi) ==
    IF lo > hi THEN <<>>
    ELSE IF lo = hi THEN <<lo>>
    ELSE LET mid == (lo + hi) \div 2
         IN  MergeRuns(key, StableArgsort(key, lo, mid), StableArgsort(key, mid + 1, hi))

\* the places of a sorted indexer whose key is shared with a neighbour
TiedPlaces(key, ix) ==
    {i \in 1..Len(ix) :
        /\ key[ix[i]] # NaT
        /\ \/ (i > 1 /\ key[ix[i - 1]] = key[ix[i]])
           \/ (i < Len(ix) /\ key[ix[i + 1]] = key[ix[i]])}

\* the indexers sort_values(by='datetime') can use: kind='quicksort' (the
\* default) is not stable, so rows with equal keys come in any order; the NaT
\* rows come last (na_position='last'), in their own order
Argsorts(key) ==
    LET st == StableArgsort(key, 1, Len(key))
        T  == TiedPlaces(key, st)
        ps == {p \in Permutations(T) : \A i \in T : key[st[p[i]]] = key[st[i]]}
    IN  {[i \in 1..Len(st) |-> IF i \in T THEN st[p[i]] ELSE st[i]] : p \in ps}

\* the concatenation left in the order it has (the sort left out)
KeepConcatOrder(df) == {[i \in 1..Len(df.datetime) |-> i]}

SortValues(df) == Argsorts(df.datetime)

\* the rows ix of df, relabelled 0..n-1 by reset_index(drop=True); row is a
\* ghost column: each row's place in the concatenation
TakeResetIndex(df, ix) ==
    [datetime |-> [k \in 0..(Len(ix) - 1) |-> df.datetime[ix[k + 1]]],
     Current  |-> [k \in 0..(Len(ix) - 1) |-> df.Current[ix[k + 1]]],
     row      |-> [k \in 0..(Len(ix) - 1) |-> ix[k + 1]]]

NRows(col) == Cardinality(DOMAIN col)

Merge ==
    /\ pc = "merge"
    /\ LET df == Concat(all_data) IN
         \E ix \in SortValues(df) : combined_data' = TakeResetIndex(df, ix)
    /\ pc' = "convert"
    /\ UNCHANGED <<input_files, file_idx, all_data, smoothed_values, peaks, troughs,
                   intervals, max_high_tide, min_low_tide, stats_data, console, written,
                   raised>>

----------------------------------------------------------------------------
(* Unit conversion: line 37 *)

\* 100 * (4.51 x - 36.4)
Altitude(x) == 451 * x - 3640

Convert ==
    /\ pc = "convert"
    /\ combined_data' =
           [datetime |-> combined_data.datetime,
            Current  |-> combined_data.Current,
            row      |-> combined_data.row,
            Altitude |-> [k \in DOMAIN combined_data.Current |->
                             Altitude(combined_data.Current[k])]]
    /\ pc' = "smooth"
    /\ UNCHANGED <<input_files, file_idx, all_data, smoothed_values, peaks, troughs,
                   intervals, max_high_tide, min_low_tide, stats_data, console, written,
                   raised>>

----------------------------------------------------------------------------
(* Smoothing: lines 39-42 *)

\* 35 * the least-squares quadratic through five points, evaluated at the
\* first, the second and the middle one
FitAt0(a, b, c, d, e) == 31 * a + 9 * b - 3 * c - 5 * d + 3 * e
FitAt1(a, b, c, d, e) == 9 * a + 13 * b + 12 * c + 6 * d - 5 * e
FitAt2(a, b, c, d, e) == (0 - 3) * a + 12 * b + 17 * c + 12 * d - 3 * e

\* savgol_filter(x, 5, 2), mode='interp': the centre of the window inside, the
\* fit of the first (last) five points at the two first (last) places
SavgolFilter(x, n) ==
    [i \in 0..(n - 1) |->
        IF i = 0 THEN FitAt0(x[0], x[1], x[2], x[3], x[4])
        ELSE IF i = 1 THEN FitAt1(x[0], x[1], x[2], x[3], x[4])
        ELSE IF i = n - 1 THEN FitAt0(x[n - 1], x[n - 2], x[n - 3], x[n - 4], x[n - 5])
        ELSE IF i = n - 2 THEN FitAt1(x[n - 1], x[n - 2], x[n - 3], x[n - 4], x[n - 5])
        ELSE FitAt2(x[i - 2], x[i - 1], x[i], x[i + 1], x[i + 2])]

Smooth ==
    /\ pc = "smooth"
    /\ LET n == NRows(combined_data.Altitude) IN
         IF window_size > n
         THEN \* ValueError: window_length must be less than or equal to the size of x
              /\ raised' = "ValueError at line 42"
              /\ pc' = "crashed"
              /\ smoothed_values' = smoothed_values
         ELSE /\ smoothed_values' = SavgolFilter(combined_data.Altitude, n)
              /\ pc' = "peaks"
              /\ raised' = raised
    /\ UNCHANGED <<input_files, file_idx, all_data, combined_data, peaks, troughs,
                   intervals, max_high_tide, min_low_tide, stats_data, console, written>>

----------------------------------------------------------------------------
(* Extrema: lines 44-47.  find_peaks(x, distance=d) is scipy's               *)
(* _local_maxima_1d followed by _select_by_peak_distance.                    *)

\* x rises into place i
RisesInto(x, i) == x[i - 1] < x[i]

\* i_ahead: where the scan "while i_ahead < i_max and x[i_ahead] == x[i]" from
\* i + 1 stops: the first place after i where x leaves x[i], or i_max
PlateauEnd(x, i, i_max) ==
    CHOOSE a \in (i + 1)..i_max :
        /\ a = i_max \/ x[a] # x[i]
        /\ \A m \in (i + 1)..(a - 1) : x[m] = x[i]

\* x falls after the plateau that starts at i and ends before i_ahead
FallsAfter(x, i, i_ahead) == x[i_ahead] < x[i]

\* the right edge of a plateau left..right
RightEdge(left, right) == right

\* the place reported for a plateau left..right
Midpoint(left, right) == (left + right) \div 2

\* the members of a set of integers, ascending
SortedSeq(S) ==
    [j \in 1..Cardinality(S) |->
        CHOOSE v \in S : Cardinality({w \in S : w < v}) = j - 1]

\* _local_maxima_1d: for i = 1..n-2, a rise into i followed, after a run of
\* equal values, by a fall is a maximum, reported at the middle of the run.
\* (The scan jumps over the run it has just reported; no place in it, nor the
\* place after it, has a rise into it.)
LocalMaxima1d(x, i_max) ==
    SortedSeq({Midpoint(i, PlateauEnd(x, i, i_max) - 1) :
                 i \in {k \in 1..(i_max - 1) :
                          RisesInto(x, k) /\ FallsAfter(x, k, PlateauEnd(x, k, i_max))}})

\* two places closer than dist
TooClose(a, b, dist) == a - b < dist /\ b - a < dist

\* keep[] once candidate j is kept: its neighbours closer than dist are dropped
Suppress(pk, keep, j, dist) ==
    [k \in DOMAIN pk |-> IF k # j /\ TooClose(pk[k], pk[j], dist) THEN FALSE ELSE keep[k]]

\* the lowest priority still to do (argsort(priority) walked from its start)
NextByLowestPriority(priority, todo) ==
    {j \in todo : \A k \in todo : priority[k] >= priority[j]}

\* the candidates that may be handled next: argsort(priority) is walked from its
\* end, so the highest priority still to do comes first; equal priorities come
\* in the order argsort happens to give them
NextByPriority(priority, todo) ==
    {j \in todo : \A k \in todo : priority[k] <= priority[j]}

\* _select_by_peak_distance: candidates by falling priority; one already
\* dropped is skipped, one still kept drops its neighbours.  The set of the
\* keep[] arrays that can come out
RECURSIVE SelectFrom(_, _, _, _, _)
SelectFrom(pk, priority, keep, done, dist) ==
    LET live == {j \in (DOMAIN pk) \ done : keep[j]} IN
    IF live = {} THEN {keep}
    ELSE UNION {SelectFrom(pk, priority, Suppress(pk, keep, j, dist), done \cup {j}, dist) :
                    j \in NextByPriority(priority, live)}

SelectByPeakDistance(pk, priority, dist) ==
    SelectFrom(pk, priority, [j \in DOMAIN pk |-> TRUE], {}, dist)

\* peaks[keep]
Compress(pk, keep) ==
    LET K == {pk[j] : j \in {k \in DOMAIN pk : keep[k]}}
    IN  SelectSeq(pk, LAMBDA q : q \in K)

\* find_peaks(x): every local maximum, whatever the distance
FindPeaksAnyDistance(x, dist) == {LocalMaxima1d(x, NRows(x) - 1)}

\* find_peaks(x, distance=dist): the index arrays it can return
FindPeaksOf(x, dist) ==
    LET n  == NRows(x)
        pk == LocalMaxima1d(x, n - 1)
    IN  {Compress(pk, keep) :
            keep \in SelectByPeakDistance(pk, [j \in DOMAIN pk |-> x[pk[j]]], dist)}

\* smoothed_values, the sign left as it is
NotNegated(x) == x

\* -smoothed_values
Negated(x) == [i \in DOMAIN x |-> 0 - x[i]]

FindPeaks ==
    /\ pc = "peaks"
    /\ \E p \in FindPeaksOf(smoothed_values, distance) : peaks' = p
    /\ pc' = "troughs"
    /\ UNCHANGED <<input_files, file_idx, all_data, combined_data, smoothed_values,
                   troughs, intervals, max_high_tide, min_low_tide, stats_data,
                   console, written, raised>>

FindTroughs ==
    /\ pc = "troughs"
    /\ \E t \in FindPeaksOf(Negated(smoothed_values), distance) : troughs' = t
    /\ pc' = "label"
    /\ UNCHANGED <<input_files, file_idx, all_data, combined_data, smoothed_values,
                   peaks, intervals, max_high_tide, min_low_tide, stats_data,
                   console, written, raised>>

----------------------------------------------------------------------------
(* Labels: lines 49-53 *)

Range(s) == {s[i] : i \in DOMAIN s}

\* df.loc[idx, col] = label
SetLabel(col, idx, label) ==
    [k \in DOMAIN col |-> IF k \in Range(idx) THEN label ELSE col[k]]

ExtremaColumn(rows, pks, trs) ==
    SetLabel(SetLabel([k \in rows |-> ""], pks, "Max"), trs, "Min")

Label ==
    /\ pc = "label"
    /\ combined_data' =
           [datetime |-> combined_data.datetime,
            Current  |-> combined_data.Current,
            row      |-> combined_data.row,
            Altitude |-> combined_data.Altitude,
            Smoothed |-> smoothed_values,
            Extrema  |-> ExtremaColumn(DOMAIN combined_data.datetime, peaks, troughs)]
    /\ pc' = "intervals"
    /\ UNCHANGED <<input_files, file_idx, all_data, smoothed_values, peaks, troughs,
                   intervals, max_high_tide, min_low_tide, stats_data, console,
                   written, raised>>

----------------------------------------------------------------------------
(* Statistics: lines 55-93 *)

\* combined_data.loc[idx, col]
Loc(idx, col) == [i \in DOMAIN idx |-> combined_data[col][idx[i]]]

\* Series.diff(): NaT first, and wherever one of the two timestamps is NaT
Diff(times) ==
    [i \in DOMAIN times |->
        IF i = 1 \/ times[i] = NaT \/ times[i - 1] = NaT
        THEN NaT
        ELSE times[i] - times[i - 1]]

DropNa(s) == SelectSeq(s, LAMBDA d : d # NaT)

RECURSIVE Sum(_)
Sum(s) == IF s = <<>> THEN 0 ELSE Head(s) + Sum(Tail(s))

\* a float: NaN, or the fraction num / den
NaN == [nan |-> TRUE, num |-> 0, den |-> 1]
Frac(num, den) == [nan |-> FALSE, num |-> num, den |-> den]

\* (deltas in seconds / 3600).mean(), in hours; the mean of nothing is NaN
MeanHours(deltas) ==
    IF deltas = <<>> THEN NaN ELSE Frac(Sum(deltas), 3600 * Len(deltas))

MeanInterval(times) == MeanHours(DropNa(Diff(times)))

Intervals ==
    /\ pc = "intervals"
    /\ intervals' = [high |-> MeanInterval(Loc(peaks, "datetime")),
                     low  |-> MeanInterval(Loc(troughs, "datetime"))]
    /\ pc' = "max_high"
    /\ UNCHANGED <<input_files, file_idx, all_data, combined_data, smoothed_values,
                   peaks, troughs, max_high_tide, min_low_tide, stats_data, console,
                   written, raised>>

RECURSIVE MaxOf(_)
MaxOf(s) == IF Len(s) = 1 THEN s[1] ELSE Max2(s[1], MaxOf(Tail(s)))
RECURSIVE MinOf(_)
MinOf(s) == IF Len(s) = 1 THEN s[1] ELSE Min2(s[1], MinOf(Tail(s)))

\* the first label of idx whose Altitude is v: idxmax() / idxmin()
FirstWith(idx, v) ==
    idx[CHOOSE i \in DOMAIN idx :
            /\ combined_data.Altitude[idx[i]] = v
            /\ \A j \in 1..(i - 1) : combined_data.Altitude[idx[j]] # v]

\* lines 68-70: Altitude.iloc[peaks].max(), and the time at .idxmax(), which
\* raises ValueError when there is no peak
MaxHighTide ==
    /\ pc = "max_high"
    /\ IF peaks = <<>>
       THEN /\ raised' = "ValueError at line 70"
            /\ pc' = "crashed"
            /\ max_high_tide' = max_high_tide
       ELSE /\ LET v == MaxOf(Loc(peaks, "Altitude"))
                   k == FirstWith(peaks, v)
               IN  max_high_tide' =
                       [value |-> v, time |-> combined_data.datetime[k], label |-> k]
            /\ pc' = "min_low"
            /\ raised' = raised
    /\ UNCHANGED <<input_files, file_idx, all_data, combined_data, smoothed_values,
                   peaks, troughs, intervals, min_low_tide, stats_data, console,
                   written>>

\* every trough taken as valid (the floor left out)
AnyTrough(k, floor) == k \in DOMAIN combined_data.Altitude

\* Altitude.iloc[troughs] >= floor
ValidTrough(k, floor) == combined_data.Altitude[k] >= floor
\* troughs[valid_troughs]
ValidTroughsIndices(trs, floor) == SelectSeq(trs, LAMBDA k : ValidTrough(k, floor))

\* lines 72-77: the least Altitude over the valid troughs, and the time at
\* .idxmin(), which raises ValueError when no trough is valid
MinLowTide ==
    /\ pc = "min_low"
    /\ LET valid_troughs_indices == ValidTroughsIndices(troughs, min_tide_threshold) IN
       IF valid_troughs_indices = <<>>
       THEN /\ raised' = "ValueError at line 77"
            /\ pc' = "crashed"
            /\ min_low_tide' = min_low_tide
       ELSE /\ LET v == MinOf(Loc(valid_troughs_indices, "Altitude"))
                   k == FirstWith(valid_troughs_indices, v)
               IN  min_low_tide' =
                       [value |-> v, time |-> combined_data.datetime[k], label |-> k]
            /\ pc' = "stats"
            /\ raised' = raised
    /\ UNCHANGED <<input_files, file_idx, all_data, combined_data, smoothed_values,
                   peaks, troughs, intervals, max_high_tide, stats_data, console,
                   written>>

\* lines 79-93
BuildStats ==
    /\ pc = "stats"
    /\ stats_data' =
          <<[Metric |-> "Mean Time Between High Tides (hours)", Value |-> intervals.high],
            [Metric |-> "Mean Time Between Low Tides (hours)", Value |-> intervals.low],
            [Metric |-> "Max High Tide (m) + Date/Time",
             Value  |-> [value |-> max_high_tide.value, time |-> max_high_tide.time]],
            [Metric |-> "Min Low Tide (m) + Date/Time",
             Value  |-> [value |-> min_low_tide.value, time |-> min_low_tide.time]]>>
    /\ pc' = "plot"
    /\ UNCHANGED <<input_files, file_idx, all_data, combined_data, smoothed_values,
                   peaks, troughs, intervals, max_high_tide, min_low_tide, console,
                   written, raised>>

----------------------------------------------------------------------------
(* Output: lines 95-122 *)

Plot ==
    /\ pc = "plot"
    /\ written' = written \cup {"tidal_data_plot.png"}
    /\ pc' = "save"
    /\ UNCHANGED <<input_files, file_idx, all_data, combined_data, smoothed_values,
                   peaks, troughs, intervals, max_high_tide, min_low_tide, stats_data,
                   console, raised>>

Save ==
    /\ pc = "save"
    /\ written' = written \cup {"output_file"}
    /\ console' = Append(console, "Results saved to output_file")
    /\ pc' = "returned"
    /\ UNCHANGED <<input_files, file_idx, all_data, combined_data, smoothed_values,
                   peaks, troughs, intervals, max_high_tide, min_low_tide, stats_data,
                   raised>>

----------------------------------------------------------------------------

Init ==
    /\ input_files \in Inputs
    /\ pc = "load"
    /\ file_idx = 1
    /\ all_data = <<>>
    /\ combined_data = [datetime |-> <<>>, Current |-> <<>>]
    /\ smoothed_values = <<>>
    /\ peaks = <<>>
    /\ troughs = <<>>
    /\ intervals = <<>>
    /\ max_high_tide = <<>>
    /\ min_low_tide = <<>>
    /\ stats_data = <<>>
    /\ console = <<>>
    /\ written = {}
    /\ raised = "none"

Next ==
    \/ LoadFile
    \/ CheckLoaded
    \/ Merge
    \/ Convert
    \/ Smooth
    \/ FindPeaks
    \/ FindTroughs
    \/ Label
    \/ Intervals
    \/ MaxHighTide
    \/ MinLowTide
    \/ BuildStats
    \/ Plot
    \/ Save

Spec == Init /\ [][Next]_vars

----------------------------------------------------------------------------
(* Properties *)

Has(col) == col \in DOMAIN combined_data
Finished == pc \in {"returned", "crashed"}
\* find_peaks has returned the peaks (the troughs)
PeaksFound ==
    \/ pc \in {"troughs", "label", "intervals", "max_high", "min_low", "stats",
               "plot", "save"}
    \/ raised \in {"ValueError at line 70", "ValueError at line 77"}
    \/ stats_data # <<>>
TroughsFound == PeaksFound /\ pc # "troughs"
MinLowComputed == pc \in {"stats", "plot", "save"} \/ stats_data # <<>>

RowsLoaded == Sum([f \in DOMAIN all_data |-> Len(all_data[f].datetime)])
Within(a, b) == TooClose(a, b, distance)

\* C1: once merged, the series has as many rows as were loaded, each row of
\* the concatenation exactly once, and no row is followed by one with an
\* earlier timestamp (rows without a timestamp, NaT, come last).
C1_MergedSortedComplete ==
    Has("row") =>
        LET dt  == combined_data.datetime
            n   == NRows(dt)
            cat == Concat(all_data)
            row == combined_data.row
            cur == combined_data.Current
        IN  /\ n = RowsLoaded
            /\ \A k \in 0..(n - 2) : ~Before(dt[k + 1], dt[k])
            /\ {row[k] : k \in 0..(n - 1)} = 1..n
            /\ \A k \in 0..(n - 1) :
                  dt[k] = cat.datetime[row[k]] /\ cur[k] = cat.Current[row[k]]

\* C1 witness: two files were merged, the sort moved a row, and a row without
\* a timestamp was kept.
C1_Witness ==
    /\ Has("row")
    /\ Len(all_data) = 2
    /\ \E k \in DOMAIN combined_data.row : combined_data.row[k] # k + 1
    /\ \E k \in DOMAIN combined_data.row : combined_data.datetime[k] = NaT

\* the 'Current (mA)' values of the rows of a frame stamped t, in the order idx
CurrentsAt(dt, cur, idx, t) ==
    LET sel == SelectSeq(idx, LAMBDA i : dt[i] = t)
    IN  [j \in DOMAIN sel |-> cur[sel[j]]]

\* C2: the merge is stable: the rows that share a timestamp come out in the
\* order the concatenation has them.
C2_MergeStable ==
    Has("row") =>
        LET dt   == combined_data.datetime
            n    == NRows(dt)
            cat  == Concat(all_data)
            tied == {dt[k] : k \in {j \in 0..(n - 2) : dt[j] = dt[j + 1]}}
        IN  \A t \in tied :
                CurrentsAt(dt, combined_data.Current, [i \in 1..n |-> i - 1], t)
                    = CurrentsAt(cat.datetime, cat.Current, [i \in 1..n |-> i], t)

EveryInputEmpty ==
    \A f \in DOMAIN input_files :
        ~input_files[f].readable \/ Len(input_files[f].Date) = 0

\* C3: when every input is absent or empty, the run ends by reporting that
\* there is no data: it returns without an exception, having run no later
\* stage and written no file.
C3_EmptyInputReported ==
    (EveryInputEmpty /\ Finished) =>
        /\ pc = "returned"
        /\ raised = "none"
        /\ \E m \in DOMAIN console : console[m] = "No valid data files provided."
        /\ written = {}
        /\ ~Has("Altitude")
        /\ smoothed_values = <<>>

Spaced(idx) ==
    \A i, j \in DOMAIN idx : i < j => idx[j] - idx[i] >= distance

\* C4: any two detected peaks are at least distance samples apart, and so are
\* any two detected troughs.
C4_ExtremaSpacing == Spaced(peaks) /\ Spaced(troughs)

\* C4 witness: several peaks and troughs were kept, a candidate was dropped
\* for being too close, and a peak and a trough are closer than distance.
C4_Witness ==
    /\ TroughsFound
    /\ Len(peaks) >= 2
    /\ Len(troughs) >= 2
    /\ Len(LocalMaxima1d(smoothed_values, NRows(smoothed_values) - 1)) > Len(peaks)
    /\ \E p \in Range(peaks), t \in Range(troughs) : Within(p, t)

\* C5: the minimum low tide is the Altitude and timestamp of a detected trough
\* at or above the floor, and no detected trough at or above the floor is lower.
C5_MinValidLowTide ==
    MinLowComputed =>
        /\ \E k \in Range(troughs) :
              /\ k = min_low_tide.label
              /\ combined_data.Altitude[k] >= min_tide_threshold
              /\ min_low_tide.value = combined_data.Altitude[k]
              /\ min_low_tide.time = combined_data.datetime[k]
        /\ \A j \in Range(troughs) :
              combined_data.Altitude[j] >= min_tide_threshold
                  => combined_data.Altitude[j] >= min_low_tide.value
        /\ stats_data # <<>> =>
              /\ stats_data[4].Value.value = min_low_tide.value
              /\ stats_data[4].Value.time = min_low_tide.time

\* C5 witness: the statistics are built, a detected trough lies below the
\* floor (and below the reported minimum), and two troughs of different
\* Altitude are at or above it.
C5_Witness ==
    /\ stats_data # <<>>
    /\ \E k \in Range(troughs) :
          /\ combined_data.Altitude[k] < min_tide_threshold
          /\ combined_data.Altitude[k] < stats_data[4].Value.value
    /\ \E j, k \in Range(troughs) :
          /\ combined_data.Altitude[j] >= min_tide_threshold
          /\ combined_data.Altitude[k] > combined_data.Altitude[j]

\* the reported mean v is (last - first) / (count - 1) seconds, in hours
MeanIsSpan(v, times) ==
    /\ \A i \in DOMAIN times : times[i] # NaT
    /\ ~v.nan
    /\ v.num * (3600 * (Len(times) - 1)) = (times[Len(times)] - times[1]) * v.den

\* C6: with two or more peaks (troughs) the reported mean interval is the
\* mean of the differences of consecutive peak (trough) timestamps, that is
\* (last - first) / (count - 1), in hours.
C6_MeanInterval ==
    stats_data # <<>> =>
        /\ Len(peaks) >= 2 => MeanIsSpan(stats_data[1].Value, Loc(peaks, "datetime"))
        /\ Len(troughs) >= 2 => MeanIsSpan(stats_data[2].Value, Loc(troughs, "datetime"))

AllStamped(idx) == \A i \in DOMAIN idx : combined_data.datetime[idx[i]] # NaT

\* C6, for extrema that all carry a timestamp: the same statement, restricted
\* to the runs in which no detected peak (trough) falls on a NaT row.
C6_MeanIntervalStamped ==
    stats_data # <<>> =>
        /\ (Len(peaks) >= 2 /\ AllStamped(peaks))
              => MeanIsSpan(stats_data[1].Value, Loc(peaks, "datetime"))
        /\ (Len(troughs) >= 2 /\ AllStamped(troughs))
              => MeanIsSpan(stats_data[2].Value, Loc(troughs, "datetime"))

\* C6, the example: three peaks twelve hours apart, mean exactly 12.0 hours
C6_TwelveHours ==
    /\ stats_data # <<>>
    /\ Len(peaks) = 3
    /\ AllStamped(peaks)
    /\ Diff(Loc(peaks, "datetime")) = <<NaT, 43200, 43200>>
    /\ stats_data[1].Value.num = 12 * stats_data[1].Value.den

\* C7: a statistic that cannot be computed does not stop the run: the run
\* returns and writes its output, and no statistic is reported as NaN.
C7_PartialStatistics ==
    (PeaksFound /\ Finished) =>
        /\ pc = "returned"
        /\ raised = "none"
        /\ "output_file" \in written
        /\ Len(stats_data) = 4
        /\ ~stats_data[1].Value.nan
        /\ ~stats_data[2].Value.nan

\* every place of idx is inside the series and beats both neighbours in x
StrictExtrema(x, idx) ==
    \A i \in Range(idx) :
        /\ 0 < i
        /\ i < NRows(x) - 1
        /\ x[i] > x[i - 1]
        /\ x[i] > x[i + 1]

\* C8 (as claimed): every detected peak is strictly greater than both of its
\* neighbours, and every detected trough strictly smaller.
C8_StrictNeighbours ==
    /\ StrictExtrema(smoothed_values, peaks)
    /\ StrictExtrema(Negated(smoothed_values), troughs)

\* every place of idx is the middle of a run of equal values of x, inside the
\* series, with a lower value right before and right after the run
PlateauExtrema(x, idx) ==
    LET n == NRows(x) IN
    \A i \in Range(idx) :
        /\ 0 < i
        /\ i < n - 1
        /\ \E l \in 1..i :
              /\ \A m \in l..i : x[m] = x[i]
              /\ x[l - 1] < x[i]
              /\ \E r \in i..(n - 2) :
                    /\ \A m \in i..r : x[m] = x[i]
                    /\ x[r + 1] < x[i]
                    /\ i = (l + r) \div 2

\* C8 (amended): every detected peak is the middle place of a run of one or
\* more equal smoothed values that is bounded by lower values on both sides;
\* every detected trough, of a run bounded by higher values.
C8_PlateauMaxima ==
    /\ PlateauExtrema(smoothed_values, peaks)
    /\ troughs # <<>> =>
          LET negated == Negated(smoothed_values) IN PlateauExtrema(negated, troughs)

\* C8 witness: troughs were detected, one detected peak lies on a plateau
\* (equal to both of its neighbours) and another is above both neighbours.
C8_Witness ==
    /\ TroughsFound
    /\ troughs # <<>>
    /\ \E i \in Range(peaks) :
          /\ smoothed_values[i] = smoothed_values[i - 1]
          /\ smoothed_values[i] = smoothed_values[i + 1]
    /\ \E i \in Range(peaks) :
          /\ smoothed_values[i] > smoothed_values[i - 1]
          /\ smoothed_values[i] > smoothed_values[i + 1]

Candidates(x) == Range(LocalMaxima1d(x, NRows(x) - 1))

\* of two candidates closer than distance the larger is kept and the other
\* dropped; of two equal ones, the earlier is kept and the later dropped
LargerOrEarlierKept(x, idx) ==
    LET kept == Range(idx) IN
    \A a, b \in Candidates(x) :
        (a # b /\ Within(a, b)) =>
            /\ x[a] > x[b] => (a \in kept /\ b \notin kept)
            /\ (x[a] = x[b] /\ a < b) => (a \in kept /\ b \notin kept)

\* C9 (as claimed): of two candidates fewer than distance apart the detector
\* keeps the larger, and the earlier one when they are equal.
C9_LargerOrEarlierKept ==
    /\ PeaksFound => LargerOrEarlierKept(smoothed_values, peaks)
    /\ TroughsFound => LargerOrEarlierKept(Negated(smoothed_values), troughs)

\* two candidates closer than distance are never both kept, and a dropped
\* candidate has a kept one, at least as large, closer than distance
DroppedForNoSmaller(x, idx) ==
    LET cand == Candidates(x)
        kept == Range(idx)
    IN  /\ kept \subseteq cand
        /\ \A a, b \in kept : a # b => ~Within(a, b)
        /\ \A a \in cand \ kept : \E c \in kept : Within(a, c) /\ x[c] >= x[a]

\* C9 (amended): two candidates fewer than distance apart are never both
\* kept; a candidate is dropped only for a kept candidate of at least its
\* value within distance, so the larger of two is dropped only when a
\* candidate at least as large is kept near it.
C9_DroppedForNoSmaller ==
    /\ PeaksFound => DroppedForNoSmaller(smoothed_values, peaks)
    /\ TroughsFound =>
          LET negated == Negated(smoothed_values) IN DroppedForNoSmaller(negated, troughs)

\* C9 witness: of two equal candidate peaks fewer than distance apart the
\* later is kept and the earlier dropped.
C9_Witness ==
    /\ PeaksFound
    /\ \E a, b \in Candidates(smoothed_values) :
          /\ a < b
          /\ Within(a, b)
          /\ smoothed_values[a] = smoothed_values[b]
          /\ b \in Range(peaks)
          /\ a \notin Range(peaks)

\* C10: no row is both a peak and a trough, and once labelled a row reads
\* 'Max' exactly when it is a peak, 'Min' exactly when it is a trough, and ''
\* otherwise.
C10_LabelsMatchExtrema ==
    LET pks == Range(peaks)
        trs == Range(troughs)
    IN  /\ pks \cap trs = {}
        /\ Has("Extrema") =>
              LET col == combined_data.Extrema IN
              /\ {k \in DOMAIN col : col[k] = "Max"} = pks
              /\ {k \in DOMAIN col : col[k] = "Min"} = trs
              /\ \A k \in DOMAIN col : col[k] \in {"Max", "Min", ""}

\* C10 witness: a labelled series with a 'Max' row and a 'Min' row.
C10_Witness ==
    /\ Has("Extrema")
    /\ \E k \in DOMAIN combined_data.Extrema : combined_data.Extrema[k] = "Max"
    /\ \E k \in DOMAIN combined_data.Extrema : combined_data.Extrema[k] = "Min"

====
